---- MODULE Spec2Model ----
(***************************************************************************)
(* Model of 8192.c: the manifest-driven page reader.  main() opens         *)
(* ./trace_map.csv, and for i = 0..399 reads two tokens (folder,           *)
(* file_format) and probes ./<folder>/<file_format>_<iter> for iter = 1,   *)
(* 2, ... until an fopen fails, reading up to 8192 bytes of each page and  *)
(* printing the byte at offset 3.                                          *)
(*                                                                         *)
(* A C string is the sequence of the characters before its terminator; a   *)
(* character is a one-character TLA+ string.  A page file is the record    *)
(* [len, head, fill]: len bytes, the first Len(head) of them given by      *)
(* head, the others equal to fill.                                         *)
(***************************************************************************)
EXTENDS Integers, Sequences, FiniteSets, TLC

VARIABLES
    mfi,            \* which manifest text ./trace_map.csv holds (input)
    mexists,        \* whether ./trace_map.csv can be opened (input)
    fsi,            \* which set of page files is on disk (input)
    trace_file,     \* "unset", "NULL" or "open"                (line 8)
    pos,            \* read position of trace_file: index of the next char
    folder,         \* contents of the folder buffer            (line 10)
    file_format,    \* contents of the file_format buffer       (line 11)
    i,              \* outer loop counter                       (line 13)
    keep_reading,   \* line 17
    iter,           \* line 18
    fresh,          \* what the last strcat chain appended: left in the freed fname chunk
    pc,             \* "start", "fscanf", "while", "done"
    exit,           \* "running", "EXIT_SUCCESS" or "SIGNAL" (killed by a signal)
    ret,            \* return value of the last fscanf of line 15 (-2: none yet)
    nprobe,         \* fopen attempts of line 36 in the current record
    nfail,          \* of which failed
    nread,          \* pages read (lines 40-45) in the current record
    lastProbe,      \* the last fopen attempt: [name, prior, iter, n, ok]
    lastPage,       \* the last page read: [file, buf, reported], or NoPage
    handles,        \* page FILE handles open (fopen of line 36 not yet fclosed)
    peak,           \* the most page handles ever open at once
    buffers,        \* page buffers malloc'ed (line 40) and not freed, up to LeakCap
    folder_rest,    \* bytes of the folder buffer after its terminator, up to the last non-zero one
    file_format_rest  \* the same for the file_format buffer

vars == <<mfi, mexists, fsi, trace_file, pos, folder, file_format, i,
          keep_reading, iter, fresh, pc, exit, ret, nprobe, nfail, nread,
          lastProbe, lastPage, handles, peak, buffers, folder_rest,
          file_format_rest>>

\* the resource counters
counts == <<handles, peak, buffers>>

\* the bytes of the two fields past their terminators
rests == <<folder_rest, file_format_rest>>

----------------------------------------------------------------------------
(* Program constants *)

MaxRecords == 400       \* line 13: i < 400
FieldSize == 100        \* lines 10, 11, 56: the folder and file_format buffers
FnameSize == 100        \* line 22: malloc(sizeof(char)*100)
PageSize == 8192        \* lines 40, 41: buffer size and the width of %8192c
ReportOffset == 3       \* line 43: page_as_string[3]
EOF == -1               \* <stdio.h>: fscanf's return value at end of input

(* Bounds of the model *)

LongLen == 60           \* length of the long manifest token
ManyRecords == 401      \* number of records of the largest manifest
NumJunk == 2            \* number of distinct values an uninitialised byte may show
LeakCap == 2            \* the count of unreleased page buffers is not followed past this

----------------------------------------------------------------------------
(* Strings *)

Min(a, b) == IF a < b THEN a ELSE b

Max(a, b) == IF a > b THEN a ELSE b

\* the zero byte
NUL == ""

\* a byte sequence without its trailing zero bytes
TrimZeros(bytes) ==
    LET nz == {k \in 1..Len(bytes) : bytes[k] # NUL}
    IN  IF nz = {} THEN << >>
        ELSE SubSeq(bytes, 1, CHOOSE k \in nz : \A m \in nz : m <= k)

\* A %s directive stores tok and a terminator at the start of a buffer that
\* held the string str0, its terminator and then rest0: what then lies past
\* the new terminator.
RestAfterStore(tok, str0, rest0) ==
    LET old == str0 \o <<NUL>> \o rest0
    IN  TrimZeros(SubSeq(old, Len(tok) + 2, Len(old)))

Digits == <<"0", "1", "2", "3", "4", "5", "6", "7", "8", "9">>

\* sprintf(iter_string, "%d", iter), for iter >= 0
RECURSIVE Decimal(_)
Decimal(n) ==
    IF n < 10 THEN <<Digits[n + 1]>>
    ELSE Decimal(n \div 10) \o <<Digits[(n % 10) + 1]>>

\* strcat(dst, src): src's characters after dst's
strcat(dst, src) == dst \o src

\* isspace(), as the %s directive and white space in a format use it
IsSpace(c) == c \in {" ", "\n", "\t"}

\* index of the first non-space character of text at or after p (Len+1 if none)
RECURSIVE SkipSpace(_, _)
SkipSpace(text, p) ==
    IF p > Len(text) \/ ~IsSpace(text[p]) THEN p ELSE SkipSpace(text, p + 1)

\* index of the first space of text at or after p (Len+1 if none)
RECURSIVE TokenEnd(_, _)
TokenEnd(text, p) ==
    IF p > Len(text) \/ IsSpace(text[p]) THEN p ELSE TokenEnd(text, p + 1)

\* One %s directive at position p: skip white space, then take the characters
\* up to the next white space.  ok is FALSE on end of input (nothing stored).
ScanToken(text, p) ==
    LET s == SkipSpace(text, p)
        e == TokenEnd(text, s)
    IN  [ok |-> s <= Len(text), tok |-> SubSeq(text, s, e - 1), pos |-> e]

\* fscanf(trace_file, "%s %s", folder, file_format): a buffer whose directive
\* is not reached keeps its contents f0 / s0.
ScanRecord(text, p, f0, s0) ==
    LET a == ScanToken(text, p)
        b == ScanToken(text, a.pos)
    IN  IF ~a.ok THEN [ret |-> EOF, folder |-> f0, file_format |-> s0, pos |-> a.pos]
        ELSE IF ~b.ok THEN [ret |-> 1, folder |-> a.tok, file_format |-> s0, pos |-> b.pos]
        ELSE [ret |-> 2, folder |-> a.tok, file_format |-> b.tok, pos |-> b.pos]

----------------------------------------------------------------------------
(* Inputs: the manifest texts and the page files on disk *)

A == <<"a">>
B == <<"b">>
C == <<"c">>
D == <<"d">>
Long == [k \in 1..LongLen |-> "x"]

ManifestLine(f, s) == f \o <<" ">> \o s \o <<"\n">>

TwoLines == ManifestLine(A, B) \o ManifestLine(C, D)

\* ManyRecords records, "a b" and "c d" in turn
BigManifest == [k \in 1..(4 * ManyRecords) |-> TwoLines[((k - 1) % 8) + 1]]

Manifests == <<
    << >>,                                             \* no record
    ManifestLine(A, B),                                \* one record
    TwoLines,                                          \* two records
    ManifestLine(A, B) \o C,                           \* a trailing lone token
    C,                                                 \* a lone token only
    A \o <<"\n">> \o B \o <<" ", " ">> \o C \o <<"\n", "\n">> \o D,  \* pairs across lines
    ManifestLine(Long, Long) \o ManifestLine(A, B),    \* tokens of LongLen bytes
    BigManifest >>

\* The name the documentation gives page n of record (f, s)
PageFilename(f, s, n) == <<".", "/">> \o f \o <<"/">> \o s \o <<"_">> \o Decimal(n)

NoFile == [len |-> -1, head |-> << >>, fill |-> 0]
FullPage == [len |-> PageSize, head |-> <<65, 66, 67, 68, 69>>, fill |-> 70]
OverPage == [len |-> PageSize + 100, head |-> <<10, 32, 0, 7, 9>>, fill |-> 1]
FourPage == [len |-> 4, head |-> <<49, 50, 51, 52>>, fill |-> 0]
ShortPage == [len |-> 2, head |-> <<81, 82>>, fill |-> 0]
EmptyPage == [len |-> 0, head |-> << >>, fill |-> 0]

File(name, data) == [name |-> name, data |-> data]

FileSystems == <<
    {},
    { File(PageFilename(A, B, 1), FullPage), File(PageFilename(A, B, 2), OverPage),
      File(PageFilename(A, B, 4), FullPage), File(PageFilename(C, D, 1), ShortPage),
      File(PageFilename(Long, Long, 1), FullPage) },
    { File(PageFilename(A, B, 1), ShortPage), File(PageFilename(A, B, 2), EmptyPage),
      File(PageFilename(A, B, 3), FourPage),
      File(<<".", "/", "_", "1">>, FullPage), File(<<".", "/", "_", "2">>, ShortPage),
      File(PageFilename(C, << >>, 1), FourPage) } >>

\* Path resolution as fopen sees it: a run of slashes is one slash
Resolve(name) ==
    LET withPrev == [k \in 1..Len(name) |->
                        <<name[k], IF k > 1 THEN name[k - 1] ELSE "">>]
        NotRepeat(p) == ~(p[1] = "/" /\ p[2] = "/")
        kept == SelectSeq(withPrev, NotRepeat)
    IN  [k \in 1..Len(kept) |-> kept[k][1]]

\* fopen(name, "r"): the file's data, or NoFile (NULL) when no such file
fopen(fs, name) ==
    LET hits == {f \in fs : f.name = Resolve(name)}
    IN  IF hits = {} THEN NoFile ELSE (CHOOSE f \in hits : TRUE).data

----------------------------------------------------------------------------
(* Uninitialised storage: malloc does not clear what it returns *)

\* the values a byte never written may show
JunkBytes == {0} \cup {169 + k : k \in 1..(NumJunk - 1)}

\* bytes before the first zero byte of a chunk never written
Garbage == <<"Z", "U">>

\* What the chunk malloc returns for fname (line 22) may hold as a string:
\* nothing, allocator bookkeeping, or what the chunk held when it was freed.
UninitFname(stale) == {<< >>, Garbage, stale}

\* What the fresh folder / file_format chunks (lines 10, 11) may hold
UninitField == {<< >>, Garbage}

\* ... and what they may hold past that string's terminator
UninitRest == {<< >>, Garbage}

----------------------------------------------------------------------------
(* Page reading *)

\* fscanf(file, "%<width>c", buf): stores the next width bytes of the file, or
\* all of them when it has fewer; skips nothing and stops at no byte value.
\* Bytes of buf not stored keep the value junk they had.
ReadChars(file, width, junk) ==
    LET n == Min(file.len, width)
    IN  [n |-> n, head |-> SubSeq(file.head, 1, Min(Len(file.head), n)),
         fill |-> file.fill, junk |-> junk]

ReadPage_OneLess(file, junk) == ReadChars(file, PageSize - 1, junk)

\* lines 40-41: malloc(8192), then fscanf(file, "%8192c", page_as_string)
ReadPage(file, junk) == ReadChars(file, PageSize, junk)

\* page_as_string[j], j counted from 0
BufByte(buf, j) ==
    IF j >= buf.n THEN buf.junk
    ELSE IF j < Len(buf.head) THEN buf.head[j + 1]
    ELSE buf.fill

\* line 43: the byte printf("%c") reports
Reported(buf) == BufByte(buf, ReportOffset)

\* byte j of a file, j counted from 0 and j < file.len
FileByte(file, j) == IF j < Len(file.head) THEN file.head[j + 1] ELSE file.fill

\* lines 23-31: the strcat chain onto what fname already holds
BuildName(prior, f, s, n) ==
    strcat(strcat(strcat(strcat(strcat(strcat(prior, <<".", "/">>), f), <<"/">>), s),
                  <<"_">>), Decimal(n))

\* whether a string and its terminator need more than size bytes
Overflows(str, size) == Len(str) + 1 > size

----------------------------------------------------------------------------
(* The program *)

NoProbe == [name |-> << >>, prior |-> << >>, iter |-> 0, n |-> 0, ok |-> FALSE]
NoPage == [file |-> NoFile, buf |-> ReadChars(NoFile, 0, 0), reported |-> 0]

Manifest == Manifests[mfi]
Disk == FileSystems[fsi]

Init ==
    /\ mfi \in 1..Len(Manifests)
    /\ mexists \in BOOLEAN
    /\ ~mexists => mfi = 1          \* a manifest that is not there has no text
    /\ fsi \in 1..Len(FileSystems)
    /\ trace_file = "unset"
    /\ pos = 1
    /\ folder = << >>
    /\ file_format = << >>
    /\ i = 0
    /\ keep_reading = 0
    /\ iter = 0
    /\ fresh = << >>
    /\ pc = "start"
    /\ exit = "running"
    /\ ret = -2
    /\ nprobe = 0
    /\ nfail = 0
    /\ nread = 0
    /\ lastProbe = NoProbe
    /\ lastPage = NoPage
    /\ handles = 0
    /\ peak = 0
    /\ buffers = 0
    /\ folder_rest = << >>
    /\ file_format_rest = << >>

\* line 8: fopen of the manifest; its result is not tested
OpenResult(exists) == IF exists THEN "open" ELSE "NULL"

\* lines 8-13: open the manifest, allocate the two fields, i = 0
OpenManifest ==
    /\ pc = "start"
    /\ trace_file' = OpenResult(mexists)
    /\ folder' \in UninitField
    /\ file_format' \in UninitField
    /\ folder_rest' \in UninitRest
    /\ file_format_rest' \in UninitRest
    /\ i' = 0
    /\ pc' = "fscanf"
    /\ UNCHANGED <<mfi, mexists, fsi, pos, keep_reading, iter, fresh, exit, ret,
                   nprobe, nfail, nread, lastProbe, lastPage, counts>>

\* lines 17-18, with the per-record history cleared
StartScan ==
    /\ keep_reading' = 1
    /\ iter' = 1
    /\ nprobe' = 0
    /\ nfail' = 0
    /\ nread' = 0
    /\ lastProbe' = NoProbe
    /\ lastPage' = NoPage
    /\ pc' = "while"

\* lines 13-18 with the manifest open: fscanf, whose return value is not
\* looked at, then keep_reading = 1 and iter = 1
ReadRecord ==
    /\ pc = "fscanf"
    /\ i < MaxRecords
    /\ trace_file = "open"
    /\ LET r == ScanRecord(Manifest, pos, folder, file_format)
       IN  /\ ret' = r.ret
           /\ folder' = r.folder
           /\ file_format' = r.file_format
           /\ pos' = r.pos
           /\ folder_rest' = IF r.ret >= 1
                              THEN RestAfterStore(r.folder, folder, folder_rest)
                              ELSE folder_rest
           /\ file_format_rest' = IF r.ret = 2
                                   THEN RestAfterStore(r.file_format, file_format,
                                                       file_format_rest)
                                   ELSE file_format_rest
    /\ StartScan
    /\ UNCHANGED <<mfi, mexists, fsi, trace_file, i, fresh, exit, counts>>

\* line 15 with trace_file = NULL is undefined: the call may fault ...
ReadNullFault ==
    /\ pc = "fscanf"
    /\ i < MaxRecords
    /\ trace_file = "NULL"
    /\ pc' = "done"
    /\ exit' = "SIGNAL"
    /\ UNCHANGED <<mfi, mexists, fsi, trace_file, pos, folder, file_format, i,
                   keep_reading, iter, fresh, ret, nprobe, nfail, nread,
                   lastProbe, lastPage, counts, rests>>

\* ... or fail with EOF, storing nothing, and the run goes on
ReadNullEOF ==
    /\ pc = "fscanf"
    /\ i < MaxRecords
    /\ trace_file = "NULL"
    /\ ret' = EOF
    /\ StartScan
    /\ UNCHANGED <<mfi, mexists, fsi, trace_file, pos, folder, file_format, i,
                   fresh, exit, counts, rests>>

NextIter_Stuck(n) == n

\* line 44
NextIter(n) == n + 1

AfterMiss_Keep(kr) == kr

\* line 51
AfterMiss(kr) == 0

\* line 36, file != NULL: one more handle is open
AfterOpen(h) == h + 1

AfterClose_Leak(h) == h

\* line 45: fclose(file)
AfterClose(h) == h - 1

\* line 40: one more page buffer is allocated
AfterMalloc(b) == b + 1

\* lines 46-48 assign 0 to the pointer page_as_string 8192 times; no byte of
\* the buffer is written and the buffer is never freed
AfterClearLoop(b) == b

\* lines 19-53, open succeeds: build the name, fopen, read the page, report
\* one byte, iter++, fclose, free(fname)
ProbeHit ==
    /\ pc = "while"
    /\ keep_reading = 1
    /\ \E prior \in UninitFname(fresh), junk \in JunkBytes :
         LET name == BuildName(prior, folder, file_format, iter)
             file == fopen(Disk, name)
             buf == ReadPage(file, junk)
         IN  /\ file # NoFile
             /\ lastProbe' = [name |-> name, prior |-> prior, iter |-> iter,
                              n |-> nprobe + 1, ok |-> TRUE]
             /\ lastPage' = [file |-> file, buf |-> buf, reported |-> Reported(buf)]
             /\ fresh' = BuildName(<< >>, folder, file_format, iter)
    /\ nprobe' = nprobe + 1
    /\ nread' = nread + 1
    /\ iter' = NextIter(iter)
    /\ peak' = Max(peak, AfterOpen(handles))
    /\ handles' = AfterClose(AfterOpen(handles))
    /\ buffers' = Min(AfterClearLoop(AfterMalloc(buffers)), LeakCap)
    /\ UNCHANGED <<mfi, mexists, fsi, trace_file, pos, folder, file_format, i,
                   keep_reading, pc, exit, ret, nfail, rests>>

\* lines 19-36, 50-53, open fails: keep_reading = 0, free(fname)
ProbeMiss ==
    /\ pc = "while"
    /\ keep_reading = 1
    /\ \E prior \in UninitFname(fresh) :
         LET name == BuildName(prior, folder, file_format, iter)
         IN  /\ fopen(Disk, name) = NoFile
             /\ lastProbe' = [name |-> name, prior |-> prior, iter |-> iter,
                              n |-> nprobe + 1, ok |-> FALSE]
             /\ fresh' = BuildName(<< >>, folder, file_format, iter)
    /\ nprobe' = nprobe + 1
    /\ nfail' = nfail + 1
    /\ keep_reading' = AfterMiss(keep_reading)
    /\ UNCHANGED <<mfi, mexists, fsi, trace_file, pos, folder, file_format, i,
                   iter, pc, exit, ret, nread, lastPage, counts, rests>>

\* lines 23-31 when the name and its terminator exceed the 100 bytes of
\* fname: the strcat chain writes past the chunk, which is undefined; the
\* run may go on with the whole name (ProbeHit, ProbeMiss) or be killed.
ProbeOverflowFault ==
    /\ pc = "while"
    /\ keep_reading = 1
    /\ \E prior \in UninitFname(fresh) :
         Overflows(BuildName(prior, folder, file_format, iter), FnameSize)
    /\ pc' = "done"
    /\ exit' = "SIGNAL"
    /\ UNCHANGED <<mfi, mexists, fsi, trace_file, pos, folder, file_format, i,
                   keep_reading, iter, fresh, ret, nprobe, nfail, nread,
                   lastProbe, lastPage, counts, rests>>

\* lines 56-59: every byte of both fields set to 0
ClearField(str) == << >>

ClearRest_FirstByteOnly(str, rest) == TrimZeros(Tail(str \o <<NUL>> \o rest))

\* lines 56-59, k = 0..99: nothing is left past the first byte either
ClearRest(str, rest) == << >>

NextRecord_Stuck(n) == n

\* lines 13, 60: i++
NextRecord(n) == n + 1

\* the record ended without waiting for the scan to end
EndRecord_Early ==
    /\ pc = "while"
    /\ folder' = << >>
    /\ file_format' = << >>
    /\ folder_rest' = << >>
    /\ file_format_rest' = << >>
    /\ i' = i + 1
    /\ pc' = "fscanf"
    /\ UNCHANGED <<mfi, mexists, fsi, trace_file, pos, keep_reading, iter, fresh,
                   exit, ret, nprobe, nfail, nread, lastProbe, lastPage, counts>>

\* lines 19, 56-60: the while loop ends, both fields are cleared, i++
EndRecord ==
    /\ pc = "while"
    /\ keep_reading = 0
    /\ folder' = ClearField(folder)
    /\ file_format' = ClearField(file_format)
    /\ folder_rest' = ClearRest(folder, folder_rest)
    /\ file_format_rest' = ClearRest(file_format, file_format_rest)
    /\ i' = NextRecord(i)
    /\ pc' = "fscanf"
    /\ UNCHANGED <<mfi, mexists, fsi, trace_file, pos, keep_reading, iter, fresh,
                   exit, ret, nprobe, nfail, nread, lastProbe, lastPage, counts>>

\* lines 13, 61-63: the for loop ends, main falls off its end (status 0)
Exit ==
    /\ pc = "fscanf"
    /\ i >= MaxRecords
    /\ pc' = "done"
    /\ exit' = "EXIT_SUCCESS"
    /\ UNCHANGED <<mfi, mexists, fsi, trace_file, pos, folder, file_format, i,
                   keep_reading, iter, fresh, ret, nprobe, nfail, nread,
                   lastProbe, lastPage, counts, rests>>

Next ==
    \/ OpenManifest
    \/ ReadRecord
    \/ ReadNullFault
    \/ ReadNullEOF
    \/ ProbeHit
    \/ ProbeMiss
    \/ ProbeOverflowFault
    \/ EndRecord
    \/ Exit

Spec == Init /\ [][Next]_vars

----------------------------------------------------------------------------
(* What the documentation expects, computed from the inputs alone *)

Indices(text) == [k \in 1..Len(text) |-> k]

\* the tokens of a manifest text, in order
TokensOf(text) ==
    LET IsStart(k) == ~IsSpace(text[k]) /\ (k = 1 \/ IsSpace(text[k - 1]))
        IsLast(k) == ~IsSpace(text[k]) /\ (k = Len(text) \/ IsSpace(text[k + 1]))
        starts == SelectSeq(Indices(text), IsStart)
        lasts == SelectSeq(Indices(text), IsLast)
    IN  [m \in 1..Len(starts) |-> SubSeq(text, starts[m], lasts[m])]

\* the well-formed (folder, stem) pairs of a manifest text, in order
PairsOf(text) ==
    LET toks == TokensOf(text)
    IN  [r \in 1..(Len(toks) \div 2) |-> <<toks[2 * r - 1], toks[2 * r]>>]

ManifestPairs == [m \in 1..Len(Manifests) |-> PairsOf(Manifests[m])]

Exists(fs, name) == \E f \in fs : f.name = name

\* k such that pages 1..k of record (f, s) exist and page k+1 does not
Contiguous(fs, f, s) ==
    CHOOSE k \in 0..Cardinality(fs) :
        /\ \A n \in 1..k : Exists(fs, PageFilename(f, s, n))
        /\ ~Exists(fs, PageFilename(f, s, k + 1))

\* the current record's scan has ended
RecordDone == pc = "while" /\ keep_reading = 0

----------------------------------------------------------------------------
(* Claims *)

\* C1: a record with pages 1..k on disk and no page k+1 yields exactly k
\* page reads before its scan ends.
C1_ExactlyKPagesRead ==
    (RecordDone /\ ret = 2) => nread = Contiguous(Disk, folder, file_format)

\* C2: gaps are not bridged.  A record has at most one failed open; the failed
\* open is its last probe and leaves the scan ended; the only step after it is
\* the end of the record, so no higher number is probed.
C2_GapsNotBridged ==
    /\ [](/\ nfail <= 1
          /\ nfail = 1 => (keep_reading = 0 /\ ~lastProbe.ok /\ lastProbe.n = nprobe)
          /\ RecordDone => (nfail = 1 /\ ENABLED EndRecord))
    /\ [][(nfail = 1 /\ pc = "while")
            => (pc' = "fscanf" /\ i' = i + 1 /\ nprobe' = nprobe /\ nread' = nread)]_vars

\* a record with pages 1, 2 and 4 ended after its probe of page 3 failed
C2_Witness ==
    /\ pc = "fscanf"
    /\ nfail = 1
    /\ nread = 2
    /\ lastProbe.name = PageFilename(A, B, 3)
    /\ Exists(Disk, PageFilename(A, B, 4))

\* C3: only manifest records are scanned, in manifest order: a scan in loop
\* iteration i is a scan of pair i+1 of the manifest, and an iteration past
\* the last pair scans nothing.
C3_OnlyManifestRecordsScanned ==
    (trace_file = "open" /\ pc = "while")
        => /\ i < Len(ManifestPairs[mfi])
           /\ <<folder, file_format>> = ManifestPairs[mfi][i + 1]

\* C4: when the manifest cannot be opened no record is read, no page is
\* probed, and the run ends with the outcome ManifestUnavailable.
C4_ManifestUnavailableAborts ==
    trace_file = "NULL"
        => /\ ret = -2
           /\ pc # "while"
           /\ nprobe = 0
           /\ pc = "done" => exit = "ManifestUnavailable"

\* C5: a request that finds fewer than two tokens is end of input: no scan
\* is started and no page is probed for the partial record.
C5_LoneTokenIsEndOfInput ==
    ret = 1 => (pc # "while" /\ nprobe = 0)

\* C6: the page buffer holds the first 8192 bytes of the opened file, or all
\* of its bytes when it has fewer, and the page counts as read.
C6_BufferHoldsFilePrefix ==
    lastProbe.ok =>
        LET f == lastPage.file
            b == lastPage.buf
        IN  /\ f = fopen(Disk, lastProbe.name)
            /\ b.n = (IF f.len < PageSize THEN f.len ELSE PageSize)
            /\ \A j \in (0..7) \cup ((PageSize - 3)..(PageSize + 2)) :
                  j < b.n => BufByte(b, j) = FileByte(f, j)
            /\ nread >= 1

\* a page shorter than 8192 bytes was read
C6_Witness ==
    /\ lastProbe.ok
    /\ lastPage.file = ShortPage
    /\ lastPage.buf.n = 2

\* C7: the byte reported for a page is the byte at offset 3 of the page file
\* (the defined zero when the file has no such byte).
C7_ReportedByteIsFileByte ==
    lastPage # NoPage =>
        lastPage.reported = (IF lastPage.file.len > ReportOffset
                             THEN FileByte(lastPage.file, ReportOffset) ELSE 0)

\* C8: every probed name is exactly "./" folder "/" stem "_" decimal(iter).
C8_NameIsPageFilename ==
    (pc = "while" /\ nprobe > 0)
        => lastProbe.name = PageFilename(folder, file_format, lastProbe.iter)

\* C9: a run whose manifest opened ends with a success status.
C9_RunEndsInSuccess ==
    (trace_file = "open" /\ pc = "done") => exit = "EXIT_SUCCESS"

\* C10: iter is 1 when a scan starts, is at least 1, grows by one with each
\* page read and is unchanged by a failed open, so the n-th probe of a record
\* uses number n.
C10_IterCountsProbes ==
    /\ [](/\ pc = "while" => (iter >= 1 /\ iter = nread + 1)
          /\ nprobe > 0 =>
                /\ lastProbe.iter = lastProbe.n
                /\ LET d == Decimal(lastProbe.n)
                       nm == lastProbe.name
                   IN  SubSeq(nm, Len(nm) - Len(d), Len(nm)) = <<"_">> \o d)
    /\ [][/\ (pc # "while" /\ pc' = "while") => iter' = 1
          /\ nread' = nread + 1 => iter' = iter + 1
          /\ nfail' = nfail + 1 => iter' = iter]_vars

\* the fourth probe of a record is about to use number 4
C10_Witness ==
    /\ pc = "while"
    /\ keep_reading = 1
    /\ nprobe = 3
    /\ iter = 4
    /\ lastProbe.ok

\* C11: no page handle is open between probes or at the end of the run, and
\* no more than one was ever open at once: each page opened was closed before
\* the next open attempt and before the scan ended.
C11_OnePageHandle ==
    /\ handles = 0
    /\ peak <= 1
    /\ lastProbe.ok => peak = 1

\* a second page of one record was opened with the first one closed
C11_Witness ==
    /\ nread = 2
    /\ lastProbe.ok
    /\ handles = 0
    /\ peak = 1

\* C12: there is never more than one page buffer allocated and not released.
C12_OnePageBuffer ==
    buffers <= 1

\* C13: the bytes of the page buffer that a read did not store are zero.
C13_BufferZeroPastRead ==
    lastProbe.ok =>
        \A j \in (0..7) \cup ((PageSize - 3)..(PageSize - 1)) :
            j >= lastPage.buf.n => BufByte(lastPage.buf, j) = 0

\* A bound on the steps a run has left: a scan reads at most as many pages as
\* there are files, and a record takes at most RecordSteps steps.
RecordSteps == Cardinality(Disk) + 3

StepsLeft ==
    CASE pc = "done" -> 0
      [] pc = "start" -> MaxRecords * RecordSteps + 2
      [] pc = "fscanf" -> (MaxRecords - i) * RecordSteps + 1
      [] pc = "while" /\ keep_reading = 1 -> (MaxRecords - i) * RecordSteps - nread
      [] OTHER -> (MaxRecords - i) * RecordSteps - Cardinality(Disk) - 1

\* The guards of the actions: main waits for nothing, so a run that has not
\* ended is at the open, at the head of the for loop or in the while loop.
CanStep ==
    \/ pc = "start"
    \/ pc = "fscanf" /\ (i >= MaxRecords \/ trace_file \in {"open", "NULL"})
    \/ pc = "while" /\ keep_reading \in {0, 1}

\* C14: every run ends, within the 400 iterations of the record loop: a run
\* that has not ended can take a step, every step lowers the bound StepsLeft,
\* which is never negative, and i never exceeds 400.
C14_RunTerminates ==
    /\ [](/\ StepsLeft >= 0
          /\ i <= MaxRecords
          /\ pc = "done" \/ CanStep)
    /\ [][StepsLeft' < StepsLeft]_vars

\* a run went through all 400 iterations and ended
C14_Witness ==
    /\ pc = "done"
    /\ i = MaxRecords
    /\ exit = "EXIT_SUCCESS"
    /\ mfi = Len(Manifests)

\* C15: processing is sequential.  A record is requested only at the head of
\* the for loop, with the scan of the record before it ended by its failed
\* open and no page handle open; a probe is attempted only with every earlier
\* probe of the record opened, read and closed; and no step of a scan moves
\* the manifest's read position.
C15_StrictlySequential ==
    [][/\ (pc = "fscanf" /\ pc' = "while")
            => /\ i = 0 \/ (keep_reading = 0 /\ nfail = 1)
               /\ handles = 0
       /\ nprobe' = nprobe + 1
            => /\ pc = "while" /\ keep_reading = 1
               /\ nread = nprobe /\ nfail = 0
               /\ nprobe > 0 => (lastProbe.ok /\ lastProbe.n = nprobe)
               /\ handles = 0
       /\ pc = "while" => (pos' = pos /\ trace_file' = trace_file)]_vars

\* the second record was requested after the first one's pages were read
C15_Witness ==
    /\ pc = "while"
    /\ i = 1
    /\ ret = 2
    /\ nprobe = 0
    /\ buffers >= 1

\* C16: no state crosses records.  While the manifest has a pair for
\* iteration i, the scan of iteration i sees exactly that pair in folder and
\* file_format, nothing of the record before it is left in the two buffers
\* past the terminators, and the scan starts with iter = 1.
C16_NoCrossRecordState ==
    (trace_file = "open" /\ pc = "while" /\ i < Len(ManifestPairs[mfi])) =>
        /\ folder = ManifestPairs[mfi][i + 1][1]
        /\ file_format = ManifestPairs[mfi][i + 1][2]
        /\ i >= 1 => (folder_rest = << >> /\ file_format_rest = << >>)
        /\ nprobe = 0 => iter = 1

\* one-byte tokens follow a record of long tokens that had a page
C16_Witness ==
    /\ pc = "while"
    /\ i = 1
    /\ ManifestPairs[mfi] = <<(<<Long, Long>>), (<<A, B>>)>>
    /\ folder = A
    /\ file_format = B
    /\ nprobe = 0
    /\ iter = 1
    /\ buffers >= 1

\* C17: with folder and stem of at most 99 bytes each, the name built on an
\* empty fname fits, with its terminator, in the 100 bytes of fname.
C17_NameFitsFname ==
    (/\ pc = "while"
     /\ nprobe > 0
     /\ lastProbe.prior = << >>
     /\ ~Overflows(folder, FieldSize)
     /\ ~Overflows(file_format, FieldSize))
        => ~Overflows(lastProbe.name, FnameSize)

====
